---- MODULE Spec2Model ----
(***************************************************************************)
(* A model of the ds-sorter web component (src/src/ds-sorter.ts): the rule *)
(* mini-language (parseToRules and the `by` getter), the value lookup      *)
(* (#getValue), the multi-key comparator (#compareElements) and the        *)
(* placement loop of sort().                                               *)
(*                                                                         *)
(* JavaScript strings are sequences of one-character strings, so that      *)
(* splitting, slicing and joining are computed as the code computes them.  *)
(***************************************************************************)
EXTENDS Integers, Sequences, FiniteSets, TLC

VARIABLES rules, reverse, random, comparator, byInput, byText, built, cmp, got, children, events

vars == <<rules, reverse, random, comparator, byInput, byText, built, cmp, got, children, events>>

(***************************************************************************)
(* Bounds of the model.                                                    *)
(***************************************************************************)
\* longest rule string enumerated exhaustively over Chars
MaxLen == 4
\* longest rule list assigned programmatically
MaxRules == 2

(***************************************************************************)
(* Strings.                                                                *)
(***************************************************************************)
Chars == {"{", "}", ",", " ", ">", ".", "a"}

\* \s of a regular expression, over Chars
IsSpace(c) == c = " "

Max(S) == CHOOSE x \in S : \A y \in S : y <= x

Min(S) == CHOOSE x \in S : \A y \in S : x <= y

\* s.slice(from) with 1-based from: the characters from..Len(s)
SliceFrom(s, from) == SubSeq(s, from, Len(s))

\* number of whitespace characters of s starting at position pos
SpaceRun(s, pos) ==
  LET stops == {k \in pos..(Len(s) + 1) : k = Len(s) + 1 \/ ~IsSpace(s[k])}
  IN Min(stops) - pos

\* the lookahead body [^{}]*\} matches at position pos of s
ClosesBrace(s, pos) ==
  \E k \in pos..Len(s) :
    /\ s[k] = "}"
    /\ \A m \in pos..(k - 1) : s[m] \notin {"{", "}"}

\* /,\s*(?![^{}]*\})/ tried at position q: the position after the match, 0 when
\* there is none. \s* is greedy and gives characters back until the negative
\* lookahead succeeds.
MatchRuleSeparator(s, q) ==
  IF s[q] # ","
  THEN 0
  ELSE LET ends == {q + 1 + j : j \in 0..SpaceRun(s, q + 1)}
           ok == {e \in ends : ~ClosesBrace(s, e)}
       IN IF ok = {} THEN 0 ELSE Max(ok)

\* /\}\s*/ tried at position q
MatchSelectorEnd(s, q) ==
  IF s[q] # "}" THEN 0 ELSE q + 1 + SpaceRun(s, q + 1)

\* the separator '.' tried at position q
MatchDot(s, q) ==
  IF s[q] # "." THEN 0 ELSE q + 1

MatchAt(sep, s, q) ==
  CASE sep = "rule" -> MatchRuleSeparator(s, q)
    [] sep = "selector" -> MatchSelectorEnd(s, q)
    [] sep = "dot" -> MatchDot(s, q)

\* String.prototype.split: p is the start of the current piece, q the position
\* the separator is tried at
RECURSIVE SplitFrom(_, _, _, _, _)
SplitFrom(sep, s, p, q, acc) ==
  IF q > Len(s)
  THEN Append(acc, SubSeq(s, p, Len(s)))
  ELSE LET e == MatchAt(sep, s, q)
       IN IF e = 0
          THEN SplitFrom(sep, s, p, q + 1, acc)
          ELSE SplitFrom(sep, s, e, e, Append(acc, SubSeq(s, p, q - 1)))

Split(sep, s) == SplitFrom(sep, s, 1, 1, <<>>)

\* s.replace('{', ''): the first "{" removed
RemoveFirstBrace(s) ==
  LET at == {k \in 1..Len(s) : s[k] = "{"}
  IN IF at = {} THEN s ELSE SubSeq(s, 1, Min(at) - 1) \o SliceFrom(s, Min(at) + 1)

RECURSIVE Join(_, _)
\* pieces.join(sep)
Join(pieces, sep) ==
  IF pieces = <<>> THEN <<>>
  ELSE IF Len(pieces) = 1 THEN pieces[1]
  ELSE pieces[1] \o sep \o Join(Tail(pieces), sep)

InnerText == <<"i", "n", "n", "e", "r", "T", "e", "x", "t">>

(***************************************************************************)
(* Rules. A key is a string (attribute name) or an array of strings        *)
(* (property path); a selector is a string or undefined.                   *)
(***************************************************************************)
StringKey(s) == [kind |-> "string", name |-> s]

ArrayKey(segs) == [kind |-> "array", path |-> segs]

NoSelector == [defined |-> FALSE]

Selector(s) == [defined |-> TRUE, text |-> s]

Rule(key, selector, descending) ==
  [key |-> key, selector |-> selector, descending |-> descending]

\* key === undefined || key === ''
IsEmptyKey(key) == key.kind = "string" /\ key.name = <<>>

\* the key after the '>' and '.' modifiers are stripped (lines 28-35)
StripKey(rawKey) ==
  LET descending == Len(rawKey) >= 1 /\ rawKey[1] = ">"
      k == IF descending THEN SliceFrom(rawKey, 2) ELSE rawKey
  IN IF Len(k) >= 1 /\ k[1] = "."
     THEN ArrayKey(Tail(Split("dot", k)))
     ELSE StringKey(k)

\* ParseRule without the default of line 38-40
ParseRuleMissingDefault(stringRule) ==
  LET pieces == Split("selector", RemoveFirstBrace(stringRule))
      n == Len(pieces)
      rawKey == pieces[n]
      selector == IF n >= 2 THEN Selector(pieces[n - 1]) ELSE NoSelector
  IN Rule(StripKey(rawKey), selector, Len(rawKey) >= 1 /\ rawKey[1] = ">")

\* the body of stringRules.map (lines 23-47)
ParseRule(stringRule) ==
  LET pieces == Split("selector", RemoveFirstBrace(stringRule))
      n == Len(pieces)
      rawKey == pieces[n]
      selector == IF n >= 2 THEN Selector(pieces[n - 1]) ELSE NoSelector
      descending == Len(rawKey) >= 1 /\ rawKey[1] = ">"
      key == StripKey(rawKey)
  IN Rule(IF IsEmptyKey(key) THEN ArrayKey(<<InnerText>>) ELSE key,
          selector, descending)

\* StringRules with the lookahead dropped: value.split(/,\s*/)
StringRulesEveryComma(value) ==
  LET RECURSIVE Cut(_, _, _)
      Cut(p, q, acc) ==
        IF q > Len(value) THEN Append(acc, SubSeq(value, p, Len(value)))
        ELSE IF value[q] = ","
             THEN Cut(q + 1 + SpaceRun(value, q + 1), q + 1 + SpaceRun(value, q + 1),
                      Append(acc, SubSeq(value, p, q - 1)))
             ELSE Cut(p, q + 1, acc)
  IN Cut(1, 1, <<>>)

\* value.split(/,\s*(?![^{}]*\})/) (line 22)
StringRules(value) == Split("rule", value)

parseToRules(value) ==
  IF value = <<>>
  THEN <<>>
  ELSE LET stringRules == StringRules(value)
       IN [i \in 1..Len(stringRules) |-> ParseRule(stringRules[i])]

\* the template literal of the `by` getter (lines 72-76)
SerializeRule(rule) ==
  (IF rule.selector.defined /\ rule.selector.text # <<>>
   THEN <<"{">> \o rule.selector.text \o <<"}">> ELSE <<>>)
  \o <<" ">>
  \o (IF rule.descending THEN <<">">> ELSE <<>>)
  \o (IF rule.key.kind = "string" THEN rule.key.name
      ELSE <<".">> \o Join(rule.key.path, <<".">>))

\* get by() (lines 68-79)
By(rs) == Join([i \in 1..Len(rs) |-> SerializeRule(rs[i])], <<",", " ">>)

(***************************************************************************)
(* JavaScript values, as far as #getValue and the comparison see them.     *)
(***************************************************************************)
Undefined == [t |-> "undefined"]

Null == [t |-> "null"]

Num(n) == [t |-> "number", n |-> n]

NaN == [t |-> "NaN"]

Str(s) == [t |-> "string", s |-> s]

Bool(b) == [t |-> "boolean", b |-> b]

Func == [t |-> "function"]

\* a symbol with its description
Sym(d) == [t |-> "symbol", description |-> d]

\* an object: its identity, its own properties, and what valueOf() returns
\* ("self": Object.prototype.valueOf returns the object; "none": the object has
\* no valueOf; "returns": a valueOf of its own returning a primitive)
Obj(id, props, valueOf) == [t |-> "object", id |-> id, props |-> props, valueOf |-> valueOf]

ValueOfSelf == [kind |-> "self"]

ValueOfReturns(v) == [kind |-> "returns", value |-> v]

NoValueOf == [kind |-> "none"]

NoProps == [x \in {} |-> Undefined]

\* typeof v
TypeOf(v) ==
  CASE v.t = "null" -> "object"
    [] v.t = "NaN" -> "number"
    [] OTHER -> v.t

\* v == undefined
IsNullish(v) == v.t \in {"undefined", "null"}

\* x === y
StrictEquals(x, y) ==
  /\ x.t = y.t
  /\ x.t # "NaN"
  /\ x = y

Digits == <<"0", "1", "2", "3", "4", "5", "6", "7", "8", "9">>

IsDigit(c) == \E d \in 1..10 : Digits[d] = c

DigitValue(c) == (CHOOSE d \in 1..10 : Digits[d] = c) - 1

\* UTF-16 code units of the characters that occur in compared strings
CodeUnit(c) ==
  IF IsDigit(c) THEN 48 + DigitValue(c)
  ELSE CASE c = " " -> 32
         [] c = "," -> 44
         [] c = "." -> 46
         [] c = ">" -> 62
         [] c = "O" -> 79
         [] c = "[" -> 91
         [] c = "]" -> 93
         [] c = "a" -> 97
         [] c = "b" -> 98
         [] c = "c" -> 99
         [] c = "e" -> 101
         [] c = "j" -> 106
         [] c = "o" -> 111
         [] c = "t" -> 116
         [] c = "{" -> 123
         [] c = "}" -> 125

RECURSIVE StringLess(_, _)
\* x < y for two strings: the first differing code unit decides, a proper
\* prefix is less
StringLess(x, y) ==
  IF y = <<>> THEN FALSE
  ELSE IF x = <<>> THEN TRUE
  ELSE IF x[1] # y[1] THEN CodeUnit(x[1]) < CodeUnit(y[1])
  ELSE StringLess(Tail(x), Tail(y))

RECURSIVE DecimalValue(_, _)
DecimalValue(s, acc) ==
  IF s = <<>> THEN acc ELSE DecimalValue(Tail(s), 10 * acc + DigitValue(s[1]))

\* s.trim(), over the whitespace of Chars
Trim(s) ==
  LET ink == {k \in 1..Len(s) : ~IsSpace(s[k])}
  IN IF ink = {} THEN <<>> ELSE SubSeq(s, Min(ink), Max(ink))

\* ToNumber of a string: NaN unless it is empty or all decimal digits
StringToNumber(s) ==
  LET t == Trim(s)
  IN IF \A k \in 1..Len(t) : IsDigit(t[k]) THEN Num(DecimalValue(t, 0)) ELSE NaN

ObjectString ==
  <<"[", "o", "b", "j", "e", "c", "t", " ", "O", "b", "j", "e", "c", "t", "]">>

\* ToPrimitive(v, hint number): valueOf() when it returns a primitive, else
\* toString()
ToPrimitive(v) ==
  IF v.t # "object" THEN v
  ELSE IF v.valueOf.kind = "returns" THEN v.valueOf.value
  ELSE Str(ObjectString)

ToNumber(v) ==
  CASE v.t = "undefined" -> NaN
    [] v.t = "null" -> Num(0)
    [] v.t = "boolean" -> Num(IF v.b THEN 1 ELSE 0)
    [] v.t = "string" -> StringToNumber(v.s)
    [] OTHER -> v

\* x < y (abstract relational comparison)
LessThan(x, y) ==
  LET px == ToPrimitive(x)
      py == ToPrimitive(y)
  IN IF px.t = "string" /\ py.t = "string"
     THEN StringLess(px.s, py.s)
     ELSE LET nx == ToNumber(px)
              ny == ToNumber(py)
          IN nx.t = "number" /\ ny.t = "number" /\ nx.n < ny.n

(***************************************************************************)
(* Elements: the attributes present, the properties present (own or        *)
(* inherited), and the descendant each matching selector returns.          *)
(***************************************************************************)
\* every HTMLElement has innerText; the elements of the model hold no text
Element(id, attrs, props, descendants) ==
  [id |-> id, attrs |-> attrs, props |-> props @@ (InnerText :> Str(<<>>)),
   descendants |-> descendants]

NoElement == [id |-> 0]

\* elem.querySelector(selector)
QuerySelector(elem, selector) ==
  IF selector \in DOMAIN elem.descendants THEN elem.descendants[selector] ELSE NoElement

\* elem.getAttribute(name)
GetAttribute(elem, name) ==
  IF name \in DOMAIN elem.attrs THEN Str(elem.attrs[name]) ELSE Null

\* obj[name]
GetProp(props, name) ==
  IF name \in DOMAIN props THEN props[name] ELSE Undefined

Length == <<"l", "e", "n", "g", "t", "h">>

\* prop?.valueOf?.()
CallValueOf(prop) ==
  CASE prop.valueOf.kind = "self" -> prop
    [] prop.valueOf.kind = "returns" -> prop.valueOf.value
    [] OTHER -> Undefined

\* lines 256-295: the value the traversal ended on, normalized
Normalize(prop) ==
  IF prop.t = "NaN"
  THEN [value |-> Undefined, warns |-> <<>>]
  ELSE IF TypeOf(prop) \in {"number", "string", "boolean", "bigint", "undefined"} \/ prop.t = "null"
  THEN [value |-> prop, warns |-> <<>>]
  ELSE IF prop.t = "symbol"
  THEN [value |-> prop.description, warns |-> <<"symbol">>]
  ELSE IF prop.t = "function"
  THEN [value |-> Bool(TRUE), warns |-> <<"function">>]
  ELSE IF prop.t = "object"
  THEN [value |-> IF IsNullish(GetProp(prop.props, Length))
                  THEN CallValueOf(prop)
                  ELSE GetProp(prop.props, Length),
        warns |-> <<>>]
  ELSE [value |-> Undefined, warns |-> <<>>]

RECURSIVE Traverse(_, _, _)
\* Traverse without the console.warn calls and the `in` test
TraverseSilent(prop, prevProp, nestedProps) ==
  IF nestedProps = <<>> THEN Normalize(prop)
  ELSE IF IsNullish(prop) \/ TypeOf(prop) # "object"
       THEN [value |-> Undefined, warns |-> <<>>]
       ELSE Traverse(GetProp(prop.props, Head(nestedProps)), Head(nestedProps),
                     Tail(nestedProps))

\* the for loop over nestedProps (lines 236-254)
Traverse(prop, prevProp, nestedProps) ==
  IF nestedProps = <<>> THEN Normalize(prop)
  ELSE IF IsNullish(prop) \/ TypeOf(prop) # "object"
       THEN [value |-> Undefined, warns |-> <<"notObject">>]
       ELSE IF Head(nestedProps) \notin DOMAIN prop.props
            THEN [value |-> Undefined, warns |-> <<"nestedMissing">>]
            ELSE Traverse(prop.props[Head(nestedProps)], Head(nestedProps), Tail(nestedProps))

\* #getValue (lines 216-296): the value and the console.warn calls made
GetValue(sortingElem, rule) ==
  LET elem == IF rule.selector.defined /\ rule.selector.text # <<>>
              THEN QuerySelector(sortingElem, rule.selector.text)
              ELSE sortingElem
  IN IF elem = NoElement
     THEN [value |-> Undefined, warns |-> <<"selector">>]
     ELSE IF rule.key.kind = "string"
          THEN [value |-> GetAttribute(elem, rule.key.name), warns |-> <<>>]
          ELSE IF Head(rule.key.path) \notin DOMAIN elem.props
               THEN [value |-> Undefined, warns |-> <<"firstProp">>]
               ELSE Traverse(elem.props[Head(rule.key.path)], Head(rule.key.path),
                             Tail(rule.key.path))

(***************************************************************************)
(* #compareElements (lines 168-213). The result carries the console.warn   *)
(* calls made and the number of #getValue calls.                           *)
(***************************************************************************)
\* Lesser with descending alone: descending ? 1 : -1
LesserIgnoringReverse(rev, descending) == IF descending THEN 1 ELSE -1

\* line 191
Lesser(rev, descending) == IF rev # descending THEN 1 ELSE -1

\* IsTie with firstVal === secondVal alone
IsTieStrictOnly(firstVal, secondVal) == StrictEquals(firstVal, secondVal)

\* the condition of lines 194-197
IsTie(firstVal, secondVal) ==
  \/ IsNullish(firstVal) /\ IsNullish(secondVal)
  \/ StrictEquals(firstVal, secondVal)

\* Decide without the branch of lines 205-207
DecideFirstMissingOnly(firstVal, secondVal, lesser) ==
  IF IsNullish(firstVal) /\ ~IsNullish(secondVal) THEN -lesser
  ELSE IF LessThan(firstVal, secondVal) THEN lesser
  ELSE -lesser

\* lines 201-212, reached when the values do not tie
Decide(firstVal, secondVal, lesser) ==
  IF IsNullish(firstVal) /\ ~IsNullish(secondVal) THEN -lesser
  ELSE IF ~IsNullish(firstVal) /\ IsNullish(secondVal) THEN lesser
  ELSE IF LessThan(firstVal, secondVal) THEN lesser
  ELSE -lesser

RECURSIVE CompareByRules(_, _, _, _)
\* lines 181-212 with the rules argument rs
CompareByRules(a, b, rs, rev) ==
  IF rs = <<>>
  THEN [result |-> 0, warns |-> <<>>, lookups |-> 0]
  ELSE LET rule == Head(rs)
           restRules == Tail(rs)
           first == GetValue(a, rule)
           second == GetValue(b, rule)
           warned == first.warns \o second.warns
       IN IF IsTie(first.value, second.value)
          THEN IF restRules = <<>>
               THEN [result |-> 0, warns |-> warned, lookups |-> 2]
               ELSE LET rest == CompareByRules(a, b, restRules, rev)
                    IN [result |-> rest.result, warns |-> warned \o rest.warns,
                        lookups |-> 2 + rest.lookups]
          ELSE [result |-> Decide(first.value, second.value, Lesser(rev, rule.descending)),
                warns |-> warned, lookups |-> 2]

NoComparator == [defined |-> FALSE]

\* the custom comparison functions assigned in the model
Comparators == {"idDifference", "alwaysOne"}

\* this.comparator(a, b)
CallComparator(fn, a, b) ==
  IF fn = "idDifference" THEN a.id - b.id ELSE 1

\* Math.random() in tenths
RandomDraws == 0..9

\* CompareElements with the rules consulted before the custom comparator
CompareElementsRulesFirst(a, b, draw) ==
  IF random
  THEN [result |-> draw - 5, warns |-> <<>>, lookups |-> 0]
  ELSE IF rules # <<>>
       THEN CompareByRules(a, b, rules, reverse)
       ELSE IF comparator.defined
            THEN [result |-> CallComparator(comparator.fn, a, b) * (IF reverse THEN -1 ELSE 1),
                  warns |-> <<>>, lookups |-> 0]
            ELSE [result |-> 0, warns |-> <<>>, lookups |-> 0]

\* #compareElements(a, b) with this.rules; draw is what Math.random() returns
\* (in tenths, as is the result when random is set)
CompareElements(a, b, draw) ==
  IF random
  THEN [result |-> draw - 5, warns |-> <<>>, lookups |-> 0]
  ELSE IF comparator.defined
       THEN [result |-> CallComparator(comparator.fn, a, b) * (IF reverse THEN -1 ELSE 1),
             warns |-> <<>>, lookups |-> 0]
       ELSE CompareByRules(a, b, rules, reverse)

(***************************************************************************)
(* The elements of the model.                                              *)
(***************************************************************************)
A == <<"a">>

P == <<"p">>

Q == <<"q">>

S == <<"s">>

None == [x \in {} |-> <<>>]

\* a descendant: no descendants of its own
Child(id, attrs, props) == Element(id, attrs, props, None)

Elements ==
  << Element(1, None, NoProps, None),
     Element(2, A :> <<"5">>, P :> Num(5), S :> Child(21, A :> <<"a">>, P :> Num(7))),
     Element(3, A :> <<"5">>, P :> Num(7), S :> Child(31, None, P :> Str(<<"5">>))),
     Element(4, A :> <<"1", "0">>, P :> Str(<<"1", "0">>), None),
     Element(5, A :> <<"a">>, P :> Str(<<"5">>), None),
     Element(6, None, P :> Str(<<"a">>), None),
     Element(7, A :> <<"a">>, P :> NaN, None),
     Element(8, A :> <<"1", "0">>, P :> Undefined, None),
     Element(9, A :> <<"5">>, P :> Null, None),
     Element(10, A :> <<"a">>, P :> Obj(101, Q :> Num(5), ValueOfSelf), None),
     Element(11, A :> <<"1", "0">>, P :> Obj(111, Q :> Str(<<"a">>), ValueOfSelf), None),
     Element(12, None, P :> Obj(121, NoProps, NoValueOf), None),
     Element(13, None, P :> Func, None),
     Element(14, None, P :> Sym(Str(<<"a">>)), None),
     Element(15, None, P :> Obj(151, Length :> Num(2), ValueOfSelf), None),
     Element(16, None, P :> Obj(161, NoProps, ValueOfReturns(Num(7))), None) >>

ElementIds == DOMAIN Elements

\* the elements compared pairwise: all but those whose property p is a
\* function, a symbol, array-like or an object with a valueOf of its own
ComparedIds == ElementIds \ {13, 14, 15, 16}

\* the children of the host in the order the page is written in, all of them
\* slotted
Authored == <<3, 4, 5, 6>>

Slotted == {Authored[i] : i \in DOMAIN Authored}

(***************************************************************************)
(* The rule lists and rule strings assigned in the model.                  *)
(***************************************************************************)
RECURSIVE SeqsUpTo(_, _)
\* the sequences over S of length at most n
SeqsUpTo(X, n) ==
  IF n = 0 THEN {<<>>}
  ELSE LET shorter == SeqsUpTo(X, n - 1)
       IN shorter \cup {Append(s, x) : s \in shorter, x \in X}

\* rules written for the round trip through `by`
WrittenRules ==
  { Rule(k, sel, d) :
      k \in {StringKey(A), ArrayKey(<<P>>), ArrayKey(<<P, Q>>)},
      sel \in {NoSelector, Selector(S), Selector(<<"a", ",", " ", "s">>)},
      d \in BOOLEAN }

\* rules compared by
ComparedRules ==
  { Rule(k, NoSelector, d) : k \in {StringKey(A), ArrayKey(<<P>>)}, d \in BOOLEAN }
  \cup {Rule(ArrayKey(<<P, Q>>), NoSelector, TRUE), Rule(ArrayKey(<<P>>), Selector(S), FALSE)}

\* rules sorted by
SortRules ==
  {Rule(StringKey(A), NoSelector, FALSE), Rule(StringKey(A), NoSelector, TRUE),
   Rule(ArrayKey(<<P>>), NoSelector, FALSE)}

\* rules looked up by
LookedUpRules ==
  { Rule(k, sel, d) :
      k \in {StringKey(A), ArrayKey(<<P>>), ArrayKey(<<P, Q>>)},
      sel \in {NoSelector, Selector(S)},
      d \in BOOLEAN }

\* the examples of the documentation of `by` and of its grammar
ExampleStrings ==
  { <<"{", "a", ",", " ", "b", "}", " ", "x", ",", " ", "y">>,
    <<"h", "r", "e", "f", ",", " ", ">", ".", "i", "n", "n", "e", "r", "T", "e", "x", "t">>,
    <<"{", "d", "i", "v", " ", "l", "a", "b", "e", "l", "}", " ", ">">>,
    <<".", "d", "a", "t", "a", "s", "e", "t", ".", "r", "o", "w">>,
    <<"{", "a", ",", "b", "}", ">", ".", "x", ",", "{", "c", ",", " ", "d", "}", " ", "y", ",", "z">> }

RuleStrings == SeqsUpTo(Chars, MaxLen) \cup ExampleStrings

(***************************************************************************)
(* sort() (lines 155-166).                                                 *)
(***************************************************************************)
\* the orders of the elements of the sequence c
Orders(c) ==
  {o \in [DOMAIN c -> {c[i] : i \in DOMAIN c}] : \A i, j \in DOMAIN o : i # j => o[i] # o[j]}

\* the result of #compareElements(a, b) when random is unset
Comparison(i, j) == CompareElements(Elements[i], Elements[j], 0).result

\* ECMAScript's consistent comparison function, over the elements ids
Consistent(ids) ==
  /\ ~random
  /\ \A i \in ids : Comparison(i, i) = 0
  /\ \A i, j \in ids :
       /\ Comparison(i, j) < 0 <=> Comparison(j, i) > 0
       /\ Comparison(i, j) = 0 <=> Comparison(j, i) = 0
  /\ \A i, j, k \in ids :
       /\ Comparison(i, j) = 0 /\ Comparison(j, k) = 0 => Comparison(i, k) = 0
       /\ Comparison(i, j) < 0 /\ Comparison(j, k) <= 0 => Comparison(i, k) < 0
       /\ Comparison(i, j) <= 0 /\ Comparison(j, k) < 0 => Comparison(i, k) < 0

\* position of element el in the sequence c
IndexOf(c, el) == CHOOSE i \in DOMAIN c : c[i] = el

\* Array.prototype.sort is stable
StablySorted(c, o) ==
  \A i, j \in DOMAIN o :
    i < j => \/ Comparison(o[i], o[j]) < 0
             \/ Comparison(o[i], o[j]) = 0 /\ IndexOf(c, o[i]) < IndexOf(c, o[j])

\* this._slottedContent.sort(this.#compareElements): with a comparison that
\* is not consistent (random among them) the order is implementation-defined
SortOutcomes(c) ==
  IF Consistent({c[i] : i \in DOMAIN c})
  THEN {o \in Orders(c) : StablySorted(c, o)}
  ELSE Orders(c)

\* parent.appendChild(el) for a child el of parent: el moves to the end
AppendChild(c, el) ==
  LET at == IndexOf(c, el)
  IN Append(SubSeq(c, 1, at - 1) \o SubSeq(c, at + 1, Len(c)), el)

RECURSIVE Place(_, _, _)
\* the forEach of lines 158-162 from index i on (1-based), c the children
Place(sorted, i, c) ==
  IF i > Len(sorted) THEN c
  ELSE Place(sorted, i + 1, IF c[i] # sorted[i] THEN AppendChild(c, sorted[i]) ELSE c)

\* the 'ds-sort' event of lines 163-165
DsSort == [type |-> "ds-sort"]

RECURSIVE Moves(_, _, _)
\* the appendChild calls forEach makes, in order
Moves(sorted, i, c) ==
  IF i > Len(sorted) THEN <<>>
  ELSE IF c[i] # sorted[i]
       THEN <<[type |-> "appendChild", el |-> sorted[i]]>>
            \o Moves(sorted, i + 1, AppendChild(c, sorted[i]))
       ELSE Moves(sorted, i + 1, c)

(***************************************************************************)
(* The component.                                                          *)
(***************************************************************************)
DefaultRules == <<Rule(ArrayKey(<<InnerText>>), NoSelector, FALSE)>>

Idle == [done |-> FALSE]

Init ==
  /\ rules = DefaultRules
  /\ reverse = FALSE
  /\ random = FALSE
  /\ comparator = NoComparator
  /\ byInput = [set |-> FALSE]
  /\ byText = [read |-> FALSE]
  /\ built = [stage |-> "constructed"]
  /\ cmp = Idle
  /\ got = Idle
  /\ children = Authored
  /\ events = <<>>

\* No call of #compareElements or #getValue is in progress: the component runs
\* on one thread, and its properties change between calls only.
Quiet == cmp = Idle /\ got = Idle /\ events = <<>>

\* set by(newBy) (lines 80-83)
SetBy(newBy) ==
  /\ rules' = parseToRules(newBy)
  /\ byInput' = [set |-> TRUE, value |-> newBy]
  /\ built' = IF built.stage = "serialized" /\ byText.read /\ byText.text = newBy
              THEN [stage |-> "reparsed", list |-> built.list]
              ELSE [stage |-> "parsed"]
  /\ UNCHANGED <<reverse, random, comparator, byText, cmp, got, children, events>>

\* el.by = <a rule string>, on the element as constructed
AssignBy ==
  /\ built.stage = "constructed"
  /\ \E newBy \in RuleStrings : SetBy(newBy)

\* el.by = el.by, with the text just read
ReassignBy ==
  /\ built.stage = "serialized"
  /\ SetBy(byText.text)

\* get by() (lines 68-79), read once after the rules are assigned
GetBy ==
  /\ built.stage = "assigned"
  /\ byText' = [read |-> TRUE, text |-> By(rules)]
  /\ built' = [stage |-> "serialized", list |-> built.list]
  /\ UNCHANGED <<rules, reverse, random, comparator, byInput, cmp, got, children, events>>

\* el.rules = rs
SetRules(rs) ==
  /\ Quiet
  /\ rules' = rs
  /\ built' = [stage |-> "assigned", list |-> rs]
  /\ UNCHANGED <<reverse, random, comparator, byInput, byText, cmp, got, children, events>>

\* el.rules = <a list of rules>, on the element as constructed
AssignWrittenRules ==
  /\ built.stage = "constructed"
  /\ \E rs \in SeqsUpTo(WrittenRules, MaxRules) : SetRules(rs)

AssignComparedRules == \E rs \in SeqsUpTo(ComparedRules, MaxRules) : SetRules(rs)

AssignSortRules == \E rs \in SeqsUpTo(SortRules, MaxRules) : SetRules(rs)

SetReverse ==
  /\ Quiet
  /\ \E v \in BOOLEAN : reverse' = v
  /\ UNCHANGED <<rules, random, comparator, byInput, byText, built, cmp, got, children, events>>

SetRandom ==
  /\ Quiet
  /\ \E v \in BOOLEAN : random' = v
  /\ UNCHANGED <<rules, reverse, comparator, byInput, byText, built, cmp, got, children, events>>

SetComparator ==
  /\ Quiet
  /\ \E c \in {NoComparator} \cup {[defined |-> TRUE, fn |-> f] : f \in Comparators} :
       comparator' = c
  /\ UNCHANGED <<rules, reverse, random, byInput, byText, built, cmp, got, children, events>>

\* one call of #compareElements(a, b)
Compare(ids) ==
  /\ Quiet
  /\ \E i, j \in ids : \E draw \in (IF random THEN RandomDraws ELSE {0}) :
       LET r == CompareElements(Elements[i], Elements[j], draw)
       IN cmp' = [done |-> TRUE, a |-> i, b |-> j, result |-> r.result,
                  warns |-> r.warns, lookups |-> r.lookups]
  /\ UNCHANGED <<rules, reverse, random, comparator, byInput, byText, built, got, children, events>>

CompareAny == Compare(ComparedIds)

CompareSlotted == Compare(Slotted)

\* one call of #getValue(el, rule)
Lookup ==
  /\ Quiet
  /\ \E i \in ElementIds : \E rule \in LookedUpRules :
       LET r == GetValue(Elements[i], rule)
       IN got' = [done |-> TRUE, el |-> i, rule |-> rule, value |-> r.value, warns |-> r.warns]
  /\ UNCHANGED <<rules, reverse, random, comparator, byInput, byText, built, cmp, children, events>>

\* the page moves a child of the host to the end: host.appendChild(child)
MoveChild ==
  /\ Quiet
  /\ \E i \in DOMAIN children : children' = AppendChild(children, children[i])
  /\ UNCHANGED <<rules, reverse, random, comparator, byInput, byText, built, cmp, got, events>>

\* sort() (lines 155-166)
Sort ==
  /\ Quiet
  /\ \E sorted \in SortOutcomes(children) :
       /\ children' = Place(sorted, 1, children)
       /\ events' = Append(Moves(sorted, 1, children), DsSort)
  /\ UNCHANGED <<rules, reverse, random, comparator, byInput, byText, built, cmp, got>>

\* the call returns
Return ==
  /\ ~Quiet
  /\ cmp' = Idle
  /\ got' = Idle
  /\ events' = <<>>
  /\ UNCHANGED <<rules, reverse, random, comparator, byInput, byText, built, children>>

\* the rule language: parsing
NextParse == AssignBy

SpecParse == Init /\ [][NextParse]_vars

\* the rule language: serializing and parsing back
NextRoundTrip == AssignWrittenRules \/ GetBy \/ ReassignBy

SpecRoundTrip == Init /\ [][NextRoundTrip]_vars

\* comparison by rules
NextCompare == AssignComparedRules \/ SetReverse \/ CompareAny \/ Return

SpecCompare == Init /\ [][NextCompare]_vars

\* value lookup
NextLookup == Lookup \/ Return

SpecLookup == Init /\ [][NextLookup]_vars

\* comparison with the overrides
NextCustom ==
  AssignComparedRules \/ SetReverse \/ SetRandom \/ SetComparator \/ CompareSlotted \/ Return

SpecCustom == Init /\ [][NextCustom]_vars

\* sorting the children of the host
NextSort == AssignSortRules \/ SetReverse \/ MoveChild \/ Sort \/ Return

SpecSort == Init /\ [][NextSort]_vars

(***************************************************************************)
(* Vocabulary of the properties.                                           *)
(***************************************************************************)
\* number of "{" minus number of "}" among the first k characters of s
RECURSIVE Depth(_, _)
Depth(s, k) ==
  IF k = 0 THEN 0
  ELSE Depth(s, k - 1) + (IF s[k] = "{" THEN 1 ELSE IF s[k] = "}" THEN -1 ELSE 0)

\* the braces of s are balanced and not nested
BalancedFlat(s) ==
  /\ \A k \in 0..Len(s) : Depth(s, k) \in {0, 1}
  /\ Depth(s, Len(s)) = 0

\* the positions of the commas of s outside every {...} pair
OutsideCommas(s) == {k \in 1..Len(s) : s[k] = "," /\ Depth(s, k) = 0}

\* the positions of the commas of s inside a {...} pair
InsideCommas(s) == {k \in 1..Len(s) : s[k] = "," /\ Depth(s, k) = 1}

\* the n-th clause of s (n >= 1): the text between the (n-1)-th and the n-th
\* comma outside braces, without the whitespace that follows the comma
Clause(s, n) ==
  LET cuts == OutsideCommas(s)
      before == IF n = 1 THEN 0
                ELSE CHOOSE k \in cuts : Cardinality({m \in cuts : m < k}) = n - 2
      after == IF n = Cardinality(cuts) + 1 THEN Len(s) + 1
               ELSE CHOOSE k \in cuts : Cardinality({m \in cuts : m < k}) = n - 1
  IN SubSeq(s, before + 1 + (IF n = 1 THEN 0 ELSE SpaceRun(s, before + 1)), after - 1)

\* a clause of the form {selector}rest with no other brace
HasLeadingSelector(clause) ==
  /\ Len(clause) >= 2
  /\ clause[1] = "{"
  /\ Cardinality({k \in 1..Len(clause) : clause[k] \in {"{", "}"}}) = 2

\* the text between the braces of such a clause
LeadingSelector(clause) ==
  SubSeq(clause, 2, (CHOOSE k \in 1..Len(clause) : clause[k] = "}") - 1)

\* the key expression of a clause: what follows the selector part (the last
\* "}" and the whitespace after it), without one leading ">"
KeyExpression(clause) ==
  LET body == RemoveFirstBrace(clause)
      closes == {k \in 1..Len(body) : body[k] = "}"}
      from == IF closes = {} THEN 1 ELSE Max(closes) + 1 + SpaceRun(body, Max(closes) + 1)
      raw == SliceFrom(body, from)
  IN IF Len(raw) >= 1 /\ raw[1] = ">" THEN SliceFrom(raw, 2) ELSE raw

\* the value rule r reads off element i
ValueOf(i, r) == GetValue(Elements[i], r).value

Present(i, r) == ~IsNullish(ValueOf(i, r))

\* the values the rules rs read off the elements ids are, rule by rule, all
\* strings, all numbers other than NaN, or all booleans, where present
SameKind(rs, ids) ==
  \A n \in DOMAIN rs :
    LET kinds == {ValueOf(i, rs[n]).t : i \in {j \in ids : Present(j, rs[n])}}
    IN kinds \subseteq {"string", "number", "boolean"} /\ Cardinality(kinds) <= 1

\* the element rule r looks at, NoElement when its selector matches nothing
Located(i, r) ==
  IF r.selector.defined THEN QuerySelector(Elements[i], r.selector.text) ELSE Elements[i]

SelectorMisses(i, r) == Located(i, r) = NoElement

AttributeAbsent(i, r) ==
  /\ ~SelectorMisses(i, r)
  /\ r.key.kind = "string"
  /\ r.key.name \notin DOMAIN Located(i, r).attrs

FirstPropertyAbsent(i, r) ==
  /\ ~SelectorMisses(i, r)
  /\ r.key.kind = "array"
  /\ r.key.path[1] \notin DOMAIN Located(i, r).props

\* the first property of a two-segment path is missing or not an object
IntermediateBroken(i, r) ==
  /\ ~SelectorMisses(i, r)
  /\ r.key.kind = "array"
  /\ Len(r.key.path) = 2
  /\ r.key.path[1] \in DOMAIN Located(i, r).props
  /\ Located(i, r).props[r.key.path[1]].t # "object"

\* the first property of a two-segment path is an object without the second
NestedAbsent(i, r) ==
  /\ ~SelectorMisses(i, r)
  /\ r.key.kind = "array"
  /\ Len(r.key.path) = 2
  /\ r.key.path[1] \in DOMAIN Located(i, r).props
  /\ Located(i, r).props[r.key.path[1]].t = "object"
  /\ r.key.path[2] \notin DOMAIN Located(i, r).props[r.key.path[1]].props

(***************************************************************************)
(* Properties.                                                             *)
(***************************************************************************)
\* C1: with random unset and no custom comparator, when exactly one of the two
\* compared items has a missing value for the head rule, the item with the
\* missing value orders after the other: compare(present, missing) < 0 and
\* compare(missing, present) > 0, whatever descending and reverse are.
C1_MissingSinksLast ==
  cmp.done /\ ~random /\ ~comparator.defined /\ rules # <<>> =>
    /\ Present(cmp.a, Head(rules)) /\ ~Present(cmp.b, Head(rules)) => cmp.result < 0
    /\ ~Present(cmp.a, Head(rules)) /\ Present(cmp.b, Head(rules)) => cmp.result > 0

\* C2: a rule list assigned to `rules`, read through the `by` getter and
\* assigned back through the `by` setter is the same list: as many rules, each
\* with the same key, selector and descending, in the same order.
C2_RoundTrip ==
  built.stage = "reparsed" =>
    /\ Len(rules) = Len(built.list)
    /\ \A n \in DOMAIN rules :
         /\ rules[n].key = built.list[n].key
         /\ rules[n].selector = built.list[n].selector
         /\ rules[n].descending = built.list[n].descending

\* C3 as stated: with random unset and no custom comparator the comparison is
\* a total order over the items whatever values the rules read: compare(a, a)
\* = 0, compare(a, b) and compare(b, a) have opposite signs or are both 0, and
\* compare(a, b) <= 0 with compare(b, c) <= 0 implies compare(a, c) <= 0.
C3_TotalOrder ==
  cmp.done /\ ~random /\ ~comparator.defined =>
    /\ Comparison(cmp.a, cmp.a) = 0
    /\ cmp.result < 0 <=> Comparison(cmp.b, cmp.a) > 0
    /\ cmp.result = 0 <=> Comparison(cmp.b, cmp.a) = 0
    /\ \A c \in ComparedIds :
         cmp.result <= 0 /\ Comparison(cmp.b, c) <= 0 => Comparison(cmp.a, c) <= 0

\* C3 amended: the same, over items whose present values are, for each rule,
\* all strings, all numbers other than NaN, or all booleans.
C3_TotalOrderSameKind ==
  cmp.done /\ ~random /\ ~comparator.defined =>
    /\ SameKind(rules, {cmp.a}) => Comparison(cmp.a, cmp.a) = 0
    /\ SameKind(rules, {cmp.a, cmp.b}) =>
         /\ cmp.result < 0 <=> Comparison(cmp.b, cmp.a) > 0
         /\ cmp.result = 0 <=> Comparison(cmp.b, cmp.a) = 0
    /\ \A c \in ComparedIds :
         cmp.result <= 0 /\ Comparison(cmp.b, c) <= 0 /\ SameKind(rules, {cmp.a, cmp.b, c}) =>
           Comparison(cmp.a, c) <= 0

\* three items of one kind, one of them without a value, compared by two rules
C3_Witness ==
  /\ cmp.done
  /\ Len(rules) = 2
  /\ cmp.result < 0
  /\ \E c \in ComparedIds \ {cmp.a, cmp.b} :
       /\ SameKind(rules, {cmp.a, cmp.b, c})
       /\ Comparison(cmp.b, c) < 0
       /\ Comparison(cmp.a, c) < 0
       /\ Present(cmp.a, rules[1]) /\ Present(cmp.b, rules[1]) /\ ~Present(c, rules[1])

\* C4: with random unset and a custom comparator supplied, the result of every
\* comparison is the custom comparator's result, negated if and only if
\* reverse is set; no value is looked up and no warning is emitted, whatever
\* the rules are.
C4_CustomComparatorPrecedence ==
  cmp.done /\ ~random /\ comparator.defined =>
    /\ reverse => cmp.result = -CallComparator(comparator.fn, Elements[cmp.a], Elements[cmp.b])
    /\ ~reverse => cmp.result = CallComparator(comparator.fn, Elements[cmp.a], Elements[cmp.b])
    /\ cmp.lookups = 0
    /\ cmp.warns = <<>>

\* a reversed custom comparison under rules that would have warned
C4_Witness ==
  /\ cmp.done /\ ~random /\ comparator.defined /\ reverse
  /\ cmp.result > 0
  /\ CompareByRules(Elements[cmp.a], Elements[cmp.b], rules, reverse).warns # <<>>

\* C5: with random unset and no custom comparator, for two items whose values
\* on the head rule are both present and one strictly less than the other, the
\* item with the lesser value orders first exactly when reverse XOR descending
\* is false and last exactly when it is true; reverse with descending gives
\* the result of neither.
C5_ReverseXorDescending ==
  cmp.done /\ ~random /\ ~comparator.defined /\ rules # <<>>
    /\ Present(cmp.a, Head(rules)) /\ Present(cmp.b, Head(rules)) =>
    LET va == ValueOf(cmp.a, Head(rules))
        vb == ValueOf(cmp.b, Head(rules))
        flipped == reverse # Head(rules).descending
        plain == <<[Head(rules) EXCEPT !.descending = FALSE]>>
    IN /\ LessThan(va, vb) => (cmp.result < 0 <=> ~flipped) /\ (cmp.result > 0 <=> flipped)
       /\ LessThan(vb, va) => (cmp.result > 0 <=> ~flipped) /\ (cmp.result < 0 <=> flipped)
       /\ (LessThan(va, vb) \/ LessThan(vb, va)) /\ reverse /\ Head(rules).descending =>
            cmp.result = CompareByRules(Elements[cmp.a], Elements[cmp.b], plain, FALSE).result

\* the lesser value first under reverse and descending together
C5_Witness ==
  /\ cmp.done /\ rules # <<>> /\ reverse /\ Head(rules).descending
  /\ Present(cmp.a, Head(rules)) /\ Present(cmp.b, Head(rules))
  /\ LessThan(ValueOf(cmp.a, Head(rules)), ValueOf(cmp.b, Head(rules)))
  /\ cmp.result < 0

\* C6: with random unset and no custom comparator, for two items whose values
\* on the first rule are both missing or strictly identical, the result is the
\* result of comparing them by the remaining rules, 0 when none remain; an
\* empty rule list gives 0.
C6_TieBreakRecursion ==
  cmp.done /\ ~random /\ ~comparator.defined =>
    /\ rules = <<>> => cmp.result = 0
    /\ rules # <<>> =>
         LET va == ValueOf(cmp.a, Head(rules))
             vb == ValueOf(cmp.b, Head(rules))
         IN (IsNullish(va) /\ IsNullish(vb)) \/ StrictEquals(va, vb) =>
              /\ cmp.result = CompareByRules(Elements[cmp.a], Elements[cmp.b], Tail(rules), reverse).result
              /\ Tail(rules) = <<>> => cmp.result = 0

\* two items, null and undefined on the first rule, told apart by the second
C6_Witness ==
  /\ cmp.done /\ Len(rules) = 2
  /\ ValueOf(cmp.a, rules[1]) = Null
  /\ ValueOf(cmp.b, rules[1]) = Undefined
  /\ cmp.result # 0

\* C7: for a rule string with balanced braces that are not nested,
\* parseToRules cuts the clauses at exactly the commas outside every {...}
\* pair: there is one rule more than there are such commas, each rule is the
\* rule of its clause, and a selector with commas in it is the selector of one
\* rule, whole.
C7_CommaInSelector ==
  byInput.set /\ byInput.value # <<>> /\ BalancedFlat(byInput.value) =>
    /\ Len(rules) = 1 + Cardinality(OutsideCommas(byInput.value))
    /\ \A n \in DOMAIN rules :
         LET clause == Clause(byInput.value, n)
         IN /\ rules[n] = ParseRule(clause)
            /\ HasLeadingSelector(clause) => rules[n].selector = Selector(LeadingSelector(clause))

\* a string with a comma inside braces and one outside, parsed into two rules
C7_Witness ==
  /\ byInput.set /\ BalancedFlat(byInput.value)
  /\ InsideCommas(byInput.value) # {} /\ Cardinality(OutsideCommas(byInput.value)) = 1
  /\ Len(rules) = 2
  /\ rules[1].selector = Selector(<<"a", ",", " ", "b">>)
  /\ rules[1].key = StringKey(<<"x">>)
  /\ rules[2] = Rule(StringKey(<<"y">>), NoSelector, FALSE)

\* C8: for every input string, every rule parseToRules returns has a key that
\* is neither the empty string nor an empty sequence, and a clause whose key
\* expression is empty once the selector and the ">" are stripped gets the key
\* ['innerText'].
C8_KeyNeverEmpty ==
  byInput.set =>
    /\ \A n \in DOMAIN rules :
         /\ rules[n].key.kind = "string" => rules[n].key.name # <<>>
         /\ rules[n].key.kind = "array" => rules[n].key.path # <<>>
    /\ byInput.value # <<>> =>
         \A n \in DOMAIN rules :
           KeyExpression(StringRules(byInput.value)[n]) = <<>> =>
             rules[n].key = ArrayKey(<<InnerText>>)

\* a clause of a selector and ">" only
C8_Witness ==
  /\ byInput.set
  /\ \E n \in DOMAIN rules :
       /\ rules[n].selector.defined
       /\ rules[n].descending
       /\ rules[n].key = ArrayKey(<<InnerText>>)
       /\ KeyExpression(StringRules(byInput.value)[n]) = <<>>

C10_SortPlacesInOrder ==
  events # <<>> /\ Consistent(Slotted) =>
    /\ \A i, j \in DOMAIN children :
         i < j => Comparison(children[i], children[j]) <= 0
    /\ events[Len(events)] = DsSort
    /\ \A n \in 1..(Len(events) - 1) : events[n] # DsSort

====
